---- MODULE Spec2Model ----
(***************************************************************************)
(* A model of prediction_app.py: the FRP-concrete bond strength predictor. *)
(* The interactive (Tk main loop) thread runs the handlers set_language,   *)
(* browse_file, batch_predict and predict, each to completion; every call  *)
(* of batch_predict starts one background thread running run_prediction,   *)
(* whose statements interleave with the handlers.                          *)
(*                                                                         *)
(* Numbers are integers in tenths (1.5 is 15), so that decimal form input  *)
(* can be parsed.  Texts of the form are sequences of characters.          *)
(***************************************************************************)
EXTENDS Integers, Sequences, FiniteSets, TLC

VARIABLES
    app,               \* "running", or "exited" when the artifacts failed to load
    model,             \* the loaded model artifact
    scaler,            \* the loaded scaler artifact
    current_language,  \* the global current_language
    fm_combobox,       \* index of the selected FM value (1-based)
    ft_combobox,       \* index of the selected FT value
    bs_combobox,       \* index of the selected BS value
    entries,           \* texts of the 5 continuous entries, keyed by position 1..8
    result_label,      \* text of result_label
    request,           \* what the last predict() call did (calls made, values passed)
    selected_file,     \* the StringVar selected_file
    batch_button,      \* state of batch_button: "normal" or "disabled"
    browse_button,     \* state of browse_button
    batch_status,      \* text of the batch_status label
    progress_bar,      \* "running" or "stopped"
    threads,           \* the run_prediction threads started and not yet collected
    disk,              \* output files written, by save path
    tcl_threaded,      \* whether the Tcl of this build is threaded
    ui_writers         \* by widget, the threads whose calls have changed it

vars == <<app, model, scaler, current_language, fm_combobox, ft_combobox,
          bs_combobox, entries, result_label, request, selected_file,
          batch_button, browse_button, batch_status, progress_bar, threads, disk,
          tcl_threaded, ui_writers>>

formVars == <<fm_combobox, ft_combobox, bs_combobox, entries, result_label, request>>
batchVars == <<selected_file, batch_button, browse_button, batch_status,
               progress_bar, threads, disk>>
artifactVars == <<app, model, scaler>>

----------------------------------------------------------------------------
(* Bounds of the model *)

\* largest number of data rows of a batch input file
MaxRows == 2
\* largest number of run_prediction threads alive at once
MaxThreads == 2

(* Program constants *)

\* df.shape[1] < 8, df.columns[:8]
NumFeatures == 8

Languages == {"zh", "en"}

----------------------------------------------------------------------------
(* translations: a text of the table is modelled by <<language, key>>; the *)
(* empty string (batch_status_initial in both languages) by <<>>.          *)

Tr(lang, key) == IF key = "batch_status_initial" THEN <<>> ELSE <<lang, key>>

\* the string literals of run_prediction that are not in the table
TooFewColumnsMsg(cur) == <<cur, "literal: at least 8 feature columns">>
NotNumericMsg(cur) == <<cur, "literal: all feature columns must be numeric">>
SaveCancelledText(cur) == <<cur, "literal: save operation cancelled">>
SavedText(lang, cur) ==
    IF cur = "zh" THEN Tr(lang, "batch_status_start")
    ELSE <<"en", "literal: Batch prediction completed.">>
\* f"{lang['error_occurred']} {str(e)}"
ErrorText(lang, msg) == Tr(lang, "error_occurred") \o msg

FM_values == <<1, 2, 3, 4, 5>>
FT_values == <<1, 2, 3>>
BS_values == <<1, 2, 3, 4, 5>>

----------------------------------------------------------------------------
(* Spreadsheet cells and tables *)

Num(v) == [k |-> "num", v |-> v]
TextCell == [k |-> "text", v |-> 0]
NaN == [k |-> "nan", v |-> 0]

\* the data rows of the input files: T, FM, FT, BS, d, la, fc, c/d (in
\* tenths); a pass-through column holds 7.0
RowValues == << <<250, 20, 10, 30, 120, 1000, 300, 15>>,
                <<600, 50, 30, 50, 160, 800, 400, 30>>,
                <<-100, 40, 20, 10, 80, 1200, 250, 45>> >>
\* a text in column 1, 8 or 9, an empty cell in column 6 (an empty cell
\* inside the sheet: the sheet keeps its width), or the number 9 in column 2
Defects == {"none", "text@1", "text@8", "nan@6", "text@9", "nine@2"}
DefectCol(d) == CASE d = "text@1" -> 1 [] d = "text@8" -> 8 [] d = "nan@6" -> 6
                  [] d = "text@9" -> 9 [] d = "nine@2" -> 2 [] OTHER -> 0
DefectCell(d) == CASE d = "nan@6" -> NaN [] d = "nine@2" -> Num(90) [] OTHER -> TextCell

\* A path names a file: the input files are sheets of `rows` rows and
\* `cols` columns whose last row holds the defect in one cell.
NoPath == [kind |-> "none", rows |-> 0, cols |-> 0, defect |-> "none"]
OutPath == [kind |-> "out", rows |-> 0, cols |-> 0, defect |-> "none"]
InputPaths ==
    {[kind |-> "xlsx", rows |-> 0, cols |-> 0, defect |-> "none"]} \cup
    {p \in [kind : {"xlsx"}, rows : 1..MaxRows,
             cols : (NumFeatures - 1)..(NumFeatures + 1), defect : Defects] :
        DefectCol(p.defect) <= p.cols}
SavePaths == {OutPath}

SheetCell(p, r, c) ==
    IF r = p.rows /\ c = DefectCol(p.defect) THEN DefectCell(p.defect)
    ELSE IF c <= NumFeatures THEN Num(RowValues[((r - 1) % Len(RowValues)) + 1][c])
    ELSE Num(70)

\* str(n) for the column labels 0, 1, ... of a headerless sheet
ColumnName(n) == <<"0", "1", "2", "3", "4", "5", "6", "7", "8", "9", "10">>[n + 1]
PredictedColumn == "Predicted tau_u (MPa)"

NoDf == [columns |-> <<>>, rows |-> <<>>]

\* pd.read_excel(file_path, header=None) followed by df.columns.astype(str)
ReadExcel(p) ==
    [columns |-> [c \in 1..p.cols |-> ColumnName(c - 1)],
     rows |-> [r \in 1..p.rows |-> [c \in 1..p.cols |-> SheetCell(p, r, c)]]]

\* the dtype pandas gives a column: object when it holds text, float64 when
\* it holds numbers and empty cells, int64 when it holds numbers only
ColumnDtype(df, c) ==
    IF \E r \in 1..Len(df.rows) : df.rows[r][c].k = "text" THEN "object"
    ELSE IF \E r \in 1..Len(df.rows) : df.rows[r][c].k = "nan" THEN "float64"
    ELSE "int64"

is_numeric_dtype(t) == t \in {"int64", "float64"}

\* feature_columns = df.columns[:8]: the first 8 columns, or all when fewer
FeatureColumns(df) ==
    1..(IF Len(df.columns) < NumFeatures THEN Len(df.columns) ELSE NumFeatures)

\* the columns taken are the last 8 instead of the first 8
InputDataLastColumns(df) ==
    [r \in 1..Len(df.rows) |->
        [c \in FeatureColumns(df) |->
            df.rows[r][c + Len(df.columns) - Cardinality(FeatureColumns(df))]]]

\* input_data = df[feature_columns]
InputData(df) == [r \in 1..Len(df.rows) |-> [c \in FeatureColumns(df) |-> df.rows[r][c]]]

\* the new column put in front of the others
AppendColumnInFront(df, name, values) ==
    [columns |-> <<name>> \o df.columns,
     rows |-> [r \in 1..Len(df.rows) |-> <<values[r]>> \o df.rows[r]]]

\* df['Predicted ...'] = predictions
AppendColumn(df, name, values) ==
    [columns |-> Append(df.columns, name),
     rows |-> [r \in 1..Len(df.rows) |-> Append(df.rows[r], values[r])]]

\* df.to_excel(save_path, index=False): a header row of the column names,
\* then the data rows
HeaderCell(name) == [k |-> name, v |-> 0]
ToExcel(df) ==
    <<[c \in 1..Len(df.columns) |-> HeaderCell(df.columns[c])]>> \o df.rows
NoSheet == <<>>

----------------------------------------------------------------------------
(* The artifacts.  scaler.pkl is a fitted column-wise affine transform and *)
(* model.pkl a fitted decision tree; both work row by row on a matrix, and *)
(* both pass an empty (NaN) value on as scikit-learn does.                 *)

ScalerMean == <<300, 30, 20, 30, 120, 1000, 300, 20>>

\* scaler.transform(X): an N x 8 matrix to an N x 8 matrix
ScalerTransform(X) ==
    [r \in 1..Len(X) |->
        [c \in 1..Len(X[r]) |->
            IF X[r][c].k = "num" THEN Num(X[r][c].v - ScalerMean[c]) ELSE X[r][c]]]

\* a split of the tree: a missing value goes to the right child
Below(cell, t) == cell.k = "num" /\ cell.v <= t

TreeLeaf(x) ==
    IF Below(x[1], 0)
    THEN (IF Below(x[6], 0) THEN (IF Below(x[8], 0) THEN 152 ELSE 131) ELSE 118)
    ELSE (IF Below(x[2], 0) THEN 97 ELSE (IF Below(x[8], 0) THEN 74 ELSE 63))

\* model.predict(X): an N x 8 matrix to N predictions
ModelPredict(X) == [r \in 1..Len(X) |-> Num(TreeLeaf(X[r]))]

\* what a call of the scaler, the model or the file system may raise
NoExc == [type |-> "none", msg |-> <<>>]
CallOutcomes == {"ok", "ValueError", "Exception"}
IoOutcomes == {"ok", "OSError"}
RaisedBy(what, kind) == [type |-> kind, msg |-> <<what, kind>>]

----------------------------------------------------------------------------
(* run_prediction: the thread's local state *)

Terminal == {"Saved", "SaveCancelled", "Failed"}

NewThread(lang, file_path) ==
    [pc |-> "status_reading", lang |-> lang, file_path |-> file_path,
     disk_at_start |-> disk,
     df |-> NoDf, input_scaled |-> <<>>, predictions |-> <<>>,
     save_path |-> NoPath, exc |-> NoExc,
     phase |-> "Idle", trace |-> <<"Idle">>, reported |-> <<>>,
     calls |-> <<>>, dialogs |-> <<>>, wrote |-> FALSE]

Alive(t) == t.pc # "done"
AliveThreads == {i \in 1..Len(threads) : Alive(threads[i])}

\* a new phase of the run: the phase and its place in the run's history
Enter(t, phase) == [t EXCEPT !.phase = phase, !.trace = Append(@, phase)]

\* a raise that does not leave the try block: the run goes on with scaling
RaiseAndGoOn(t, exc) == [Enter(t, "Failed") EXCEPT !.pc = "status_scaling", !.exc = exc]

\* raise inside the try block: control goes to the except clause
Raise(t, exc) == [Enter(t, "Failed") EXCEPT !.pc = "error_dialog", !.exc = exc]

\* batch_status.config(text=...) called by thread i
Report(t, text) == [t EXCEPT !.reported = Append(@, text)]

At(i, pc) == app = "running" /\ i \in 1..Len(threads) /\ threads[i].pc = pc

Set(i, t) == threads' = [threads EXCEPT ![i] = t]

uiButtons == <<batch_button, browse_button>>
otherVars == <<artifactVars, formVars, current_language, selected_file, tcl_threaded>>

\* the widgets of the batch tab (a dialog counts as one) and the threads
Widgets == {"batch_status", "progress_bar", "batch_button", "browse_button", "dialog"}
MainThread == "MainThread"
BackgroundThread == "run_prediction"

\* a call of a widget method made in `thread`
UiCall(thread, widgets) ==
    ui_writers' = [w \in Widgets |->
                     IF w \in widgets THEN ui_writers[w] \cup {thread} ELSE ui_writers[w]]

\* a call of a widget method written in run_prediction: _tkinter queues it
\* to the thread of the interpreter (the main loop) when Tcl is threaded,
\* and runs it in the calling thread, under the Tcl lock, when it is not
CallFromThread(widgets) ==
    UiCall(IF tcl_threaded THEN MainThread ELSE BackgroundThread, widgets)

----------------------------------------------------------------------------
(* run_prediction: one action per statement that touches shared state or   *)
(* reads current_language; i is the thread's place in threads.             *)

\* batch_status.config(text=lang["batch_status_reading"])
StatusReading(i) ==
    /\ At(i, "status_reading")
    /\ LET t == threads[i] IN
        /\ batch_status' = Tr(t.lang, "batch_status_reading")
        /\ Set(i, [Report(Enter(t, "Reading"), Tr(t.lang, "batch_status_reading"))
                      EXCEPT !.pc = "read"])
    /\ CallFromThread({"batch_status"})
    /\ UNCHANGED <<otherVars, uiButtons, progress_bar, disk>>

\* df = pd.read_excel(file_path, header=None); df.columns = df.columns.astype(str)
ReadFile(i) ==
    /\ At(i, "read")
    /\ LET t == threads[i] IN
        \E o \in IoOutcomes :
            Set(i, IF o = "ok"
                   THEN [Enter(t, "Validating") EXCEPT !.pc = "validate",
                                                       !.df = ReadExcel(t.file_path)]
                   ELSE Raise(t, RaisedBy("read_excel", o)))
    /\ UNCHANGED <<otherVars, ui_writers, uiButtons, batch_status, progress_bar, disk>>

\* the check of the column count left out
ValidatedNoColumnCount(t, cur) ==
    IF ~ \A c \in FeatureColumns(t.df) : is_numeric_dtype(ColumnDtype(t.df, c))
    THEN Raise(t, [type |-> "ValueError", msg |-> NotNumericMsg(cur)])
    ELSE [t EXCEPT !.pc = "status_scaling"]

\* the two checks of the table, each raising ValueError in the current language
Validated(t, cur) ==
    IF Len(t.df.columns) < NumFeatures
    THEN Raise(t, [type |-> "ValueError", msg |-> TooFewColumnsMsg(cur)])
    ELSE IF ~ \A c \in FeatureColumns(t.df) : is_numeric_dtype(ColumnDtype(t.df, c))
    THEN Raise(t, [type |-> "ValueError", msg |-> NotNumericMsg(cur)])
    ELSE [t EXCEPT !.pc = "status_scaling"]

Validate(i) ==
    /\ At(i, "validate")
    /\ Set(i, Validated(threads[i], current_language))
    /\ UNCHANGED <<otherVars, ui_writers, uiButtons, batch_status, progress_bar, disk>>

\* batch_status.config(text=lang["batch_status_scaling"])
StatusScaling(i) ==
    /\ At(i, "status_scaling")
    /\ LET t == threads[i] IN
        /\ batch_status' = Tr(t.lang, "batch_status_scaling")
        /\ Set(i, [Report(Enter(t, "Scaling"), Tr(t.lang, "batch_status_scaling"))
                      EXCEPT !.pc = "scale"])
    /\ CallFromThread({"batch_status"})
    /\ UNCHANGED <<otherVars, uiButtons, progress_bar, disk>>

\* input_scaled = scaler.transform(input_data)
Scaled(t, o) ==
    LET called == [t EXCEPT !.calls = Append(@, "scaler.transform")] IN
    IF o = "ok"
    THEN [called EXCEPT !.pc = "status_predicting",
                        !.input_scaled = ScalerTransform(InputData(t.df))]
    ELSE Raise(called, RaisedBy("scaler.transform", o))

Scale(i) ==
    /\ At(i, "scale")
    /\ \E o \in CallOutcomes : Set(i, Scaled(threads[i], o))
    /\ UNCHANGED <<otherVars, ui_writers, uiButtons, batch_status, progress_bar, disk>>

\* batch_status.config(text=lang["batch_status_predicting"])
StatusPredicting(i) ==
    /\ At(i, "status_predicting")
    /\ LET t == threads[i] IN
        /\ batch_status' = Tr(t.lang, "batch_status_predicting")
        /\ Set(i, [Report(Enter(t, "Predicting"), Tr(t.lang, "batch_status_predicting"))
                      EXCEPT !.pc = "predict"])
    /\ CallFromThread({"batch_status"})
    /\ UNCHANGED <<otherVars, uiButtons, progress_bar, disk>>

\* predictions = model.predict(input_scaled); df['Predicted ...'] = predictions
Predicted(t, o) ==
    LET called == [t EXCEPT !.calls = Append(@, "model.predict")] IN
    IF o = "ok"
    THEN LET predictions == ModelPredict(t.input_scaled) IN
         [called EXCEPT !.pc = "status_saving",
                        !.predictions = predictions,
                        !.df = AppendColumn(t.df, PredictedColumn, predictions)]
    ELSE Raise(called, RaisedBy("model.predict", o))

Predict(i) ==
    /\ At(i, "predict")
    /\ \E o \in CallOutcomes : Set(i, Predicted(threads[i], o))
    /\ UNCHANGED <<otherVars, ui_writers, uiButtons, batch_status, progress_bar, disk>>

\* batch_status.config(text=lang["batch_status_saving"])
StatusSaving(i) ==
    /\ At(i, "status_saving")
    /\ LET t == threads[i] IN
        /\ batch_status' = Tr(t.lang, "batch_status_saving")
        /\ Set(i, [Report(Enter(t, "SaveChoicePending"), Tr(t.lang, "batch_status_saving"))
                      EXCEPT !.pc = "save_dialog"])
    /\ CallFromThread({"batch_status"})
    /\ UNCHANGED <<otherVars, uiButtons, progress_bar, disk>>

\* the test of save_path left out: the table is written whatever was chosen
SaveChosenUnchecked(t, path) ==
    [t EXCEPT !.dialogs = Append(@, "asksaveasfilename"), !.save_path = path,
              !.pc = "write"]

\* save_path = filedialog.asksaveasfilename(...); if save_path: ... else: ...
SaveChosen(t, path) ==
    LET asked == [t EXCEPT !.dialogs = Append(@, "asksaveasfilename"),
                           !.save_path = path] IN
    IF path # NoPath
    THEN [asked EXCEPT !.pc = "write"]
    ELSE [Enter(asked, "SaveCancelled") EXCEPT !.pc = "status_cancelled"]

SaveDialog(i) ==
    /\ At(i, "save_dialog")
    /\ \E path \in SavePaths \cup {NoPath} : Set(i, SaveChosen(threads[i], path))
    /\ CallFromThread({"dialog"})
    /\ UNCHANGED <<otherVars, uiButtons, batch_status, progress_bar, disk>>

\* df.to_excel(save_path, index=False)
WriteFile(i) ==
    /\ At(i, "write")
    /\ LET t == threads[i] IN
        \E o \in IoOutcomes :
            IF o = "ok"
            THEN /\ disk' = [disk EXCEPT ![t.save_path] = ToExcel(t.df)]
                 /\ Set(i, [Enter(t, "Saved") EXCEPT !.pc = "info_dialog",
                                                     !.wrote = TRUE])
            ELSE /\ Set(i, Raise(t, RaisedBy("to_excel", o)))
                 /\ UNCHANGED disk
    /\ UNCHANGED <<otherVars, ui_writers, uiButtons, batch_status, progress_bar>>

\* messagebox.showinfo(lang["success"], ...)
InfoDialog(i) ==
    /\ At(i, "info_dialog")
    /\ Set(i, [threads[i] EXCEPT !.pc = "status_saved",
                                 !.dialogs = Append(@, "showinfo")])
    /\ CallFromThread({"dialog"})
    /\ UNCHANGED <<otherVars, uiButtons, batch_status, progress_bar, disk>>

\* batch_status.config(text=lang["batch_status_start"] if current_language == 'zh'
\*                          else "Batch prediction completed.")
StatusSaved(i) ==
    /\ At(i, "status_saved")
    /\ LET t == threads[i]
           text == SavedText(t.lang, current_language) IN
        /\ batch_status' = text
        /\ Set(i, [Report(t, text) EXCEPT !.pc = "finally_progress"])
    /\ CallFromThread({"batch_status"})
    /\ UNCHANGED <<otherVars, uiButtons, progress_bar, disk>>

\* batch_status.config(text="... cancelled")
StatusCancelled(i) ==
    /\ At(i, "status_cancelled")
    /\ LET t == threads[i]
           text == SaveCancelledText(current_language) IN
        /\ batch_status' = text
        /\ Set(i, [Report(t, text) EXCEPT !.pc = "finally_progress"])
    /\ CallFromThread({"batch_status"})
    /\ UNCHANGED <<otherVars, uiButtons, progress_bar, disk>>

\* except Exception as e: messagebox.showerror(lang["error_title"], ...)
ErrorDialog(i) ==
    /\ At(i, "error_dialog")
    /\ Set(i, [threads[i] EXCEPT !.pc = "status_error",
                                 !.dialogs = Append(@, "showerror")])
    /\ CallFromThread({"dialog"})
    /\ UNCHANGED <<otherVars, uiButtons, batch_status, progress_bar, disk>>

\* batch_status.config(text=f"{lang['error_occurred']} {str(e)}")
StatusError(i) ==
    /\ At(i, "status_error")
    /\ LET t == threads[i]
           text == ErrorText(t.lang, t.exc.msg) IN
        /\ batch_status' = text
        /\ Set(i, [Report(t, text) EXCEPT !.pc = "finally_progress"])
    /\ CallFromThread({"batch_status"})
    /\ UNCHANGED <<otherVars, uiButtons, progress_bar, disk>>

\* finally: progress_bar.stop()
FinallyProgress(i) ==
    /\ At(i, "finally_progress")
    /\ progress_bar' = "stopped"
    /\ Set(i, [threads[i] EXCEPT !.pc = "finally_batch"])
    /\ CallFromThread({"progress_bar"})
    /\ UNCHANGED <<otherVars, uiButtons, batch_status, disk>>

\* finally: batch_button.config(state='normal')
FinallyBatch(i) ==
    /\ At(i, "finally_batch")
    /\ batch_button' = "normal"
    /\ Set(i, [threads[i] EXCEPT !.pc = "finally_browse"])
    /\ CallFromThread({"batch_button"})
    /\ UNCHANGED <<otherVars, browse_button, batch_status, progress_bar, disk>>

\* finally: browse_button.config(state='normal'); the thread ends
FinallyBrowse(i) ==
    /\ At(i, "finally_browse")
    /\ browse_button' = "normal"
    /\ Set(i, [threads[i] EXCEPT !.pc = "done"])
    /\ CallFromThread({"browse_button"})
    /\ UNCHANGED <<otherVars, batch_button, batch_status, progress_bar, disk>>

run_prediction(i) ==
    \/ StatusReading(i) \/ ReadFile(i) \/ Validate(i)
    \/ StatusScaling(i) \/ Scale(i)
    \/ StatusPredicting(i) \/ Predict(i)
    \/ StatusSaving(i) \/ SaveDialog(i) \/ WriteFile(i) \/ InfoDialog(i)
    \/ StatusSaved(i) \/ StatusCancelled(i)
    \/ ErrorDialog(i) \/ StatusError(i)
    \/ FinallyProgress(i) \/ FinallyBatch(i) \/ FinallyBrowse(i)

----------------------------------------------------------------------------
(* The handlers of the interactive thread *)

\* update_language(): the texts that are state of the model
set_language(lang) ==
    /\ app = "running"
    /\ current_language' = lang
    /\ fm_combobox' = 1
    /\ ft_combobox' = 1
    /\ bs_combobox' = 1
    /\ batch_status' = Tr(lang, "batch_status_initial")
    /\ UiCall(MainThread, {"batch_status", "batch_button", "browse_button"})
    /\ UNCHANGED <<artifactVars, entries, result_label, request, selected_file,
                   uiButtons, progress_bar, threads, disk, tcl_threaded>>

\* browse_file(), run by a click on browse_button; the user picks file_path
browse_file(file_path) ==
    /\ app = "running"
    /\ browse_button = "normal"
    /\ IF file_path # NoPath
       THEN /\ selected_file' = file_path
            /\ batch_status' = Tr(current_language, "batch_status_select")
       ELSE UNCHANGED <<selected_file, batch_status>>
    /\ UiCall(MainThread, {"dialog"} \cup (IF file_path # NoPath THEN {"batch_status"} ELSE {}))
    /\ UNCHANGED <<artifactVars, formVars, current_language, uiButtons,
                   progress_bar, threads, disk, tcl_threaded>>

\* batch_predict(), run by a click on batch_button
batch_predict ==
    /\ app = "running"
    /\ batch_button = "normal"
    /\ Cardinality(AliveThreads) < MaxThreads
    /\ IF selected_file = NoPath
       THEN /\ UiCall(MainThread, {"dialog"})
            /\ UNCHANGED batchVars
       ELSE /\ UiCall(MainThread, {"batch_button", "browse_button", "batch_status",
                                    "progress_bar"})
            /\ batch_button' = "disabled"
            /\ browse_button' = "disabled"
            /\ batch_status' = Tr(current_language, "batch_status_start")
            /\ progress_bar' = "running"
            /\ threads' = Append(SelectSeq(threads, Alive),
                                 NewThread(current_language, selected_file))
            /\ UNCHANGED <<selected_file, disk>>
    /\ UNCHANGED <<artifactVars, formVars, current_language, tcl_threaded>>

----------------------------------------------------------------------------
(* predict(): the texts of the form and their conversion to numbers *)

DigitChars == <<"0", "1", "2", "3", "4", "5", "6", "7", "8", "9">>
IsDigit(ch) == \E d \in 1..10 : DigitChars[d] = ch
DigitVal(ch) == (CHOOSE d \in 1..10 : DigitChars[d] = ch) - 1

RECURSIVE DigitsValue(_)
DigitsValue(s) ==
    IF s = <<>> THEN 0 ELSE 10 * DigitsValue(SubSeq(s, 1, Len(s) - 1)) + DigitVal(s[Len(s)])

AllDigits(s) == \A j \in 1..Len(s) : IsDigit(s[j])

\* str.strip(): leading and trailing blanks removed
RECURSIVE StripBlanks(_)
StripBlanks(s) ==
    IF s # <<>> /\ s[1] = " " THEN StripBlanks(Tail(s))
    ELSE IF s # <<>> /\ s[Len(s)] = " " THEN StripBlanks(SubSeq(s, 1, Len(s) - 1))
    ELSE s

\* str.strip(')'): leading and trailing ")" removed
RECURSIVE StripParen(_)
StripParen(s) ==
    IF s # <<>> /\ s[1] = ")" THEN StripParen(Tail(s))
    ELSE IF s # <<>> /\ s[Len(s)] = ")" THEN StripParen(SubSeq(s, 1, Len(s) - 1))
    ELSE s

\* s.split('(')[-1]: what follows the last "(" (all of s when there is none)
AfterLastParen(s) ==
    LET at == {j \in 1..Len(s) : s[j] = "("} IN
    IF at = {} THEN s
    ELSE SubSeq(s, (CHOOSE j \in at : \A k \in at : k <= j) + 1, Len(s))

Unsigned(s) == IF s # <<>> /\ s[1] \in {"+", "-"} THEN Tail(s) ELSE s
Sign(s) == IF s # <<>> /\ s[1] = "-" THEN -1 ELSE 1

Failed == [ok |-> FALSE, cell |-> NaN]

\* int(text): blanks stripped, a sign, at least one digit; in tenths
ParseInt(text) ==
    LET s == StripBlanks(text)
        u == Unsigned(s) IN
    IF u # <<>> /\ AllDigits(u)
    THEN [ok |-> TRUE, cell |-> Num(Sign(s) * 10 * DigitsValue(u))]
    ELSE Failed

\* a conversion that skips what is not a digit
ParseFloatLenient(text) ==
    [ok |-> TRUE, cell |-> Num(10 * DigitsValue(SelectSeq(text, IsDigit)))]

\* float(text) for texts with at most one digit after the point and no
\* exponent: blanks stripped, a sign, digits with an optional point, or nan
ParseFloat(text) ==
    LET s == StripBlanks(text)
        u == Unsigned(s)
        dots == {j \in 1..Len(u) : u[j] = "."}
        dot == IF dots = {} THEN Len(u) + 1 ELSE CHOOSE j \in dots : TRUE
        whole == SubSeq(u, 1, dot - 1)
        frac == SubSeq(u, dot + 1, Len(u)) IN
    IF u = <<"n", "a", "n">> THEN [ok |-> TRUE, cell |-> NaN]
    ELSE IF /\ Cardinality(dots) <= 1
            /\ AllDigits(whole) /\ AllDigits(frac)
            /\ Len(whole) + Len(frac) >= 1
            /\ Len(frac) <= 1
    THEN [ok |-> TRUE, cell |-> Num(Sign(s) * (10 * DigitsValue(whole) + DigitsValue(frac)))]
    ELSE Failed

\* the positions of the form: comboboxes at FM, FT, BS, entries elsewhere
Categorical == {2, 3, 4}
Continuous == {1, 5, 6, 7, 8}

\* f"{desc} ({val})" of the selected value of a combobox
ComboText(values, index) == <<"desc", " ", "(", DigitChars[values[index] + 1], ")">>

\* var.get() of variables[pos]
VarGet(pos) ==
    CASE pos = 2 -> ComboText(FM_values, fm_combobox)
      [] pos = 3 -> ComboText(FT_values, ft_combobox)
      [] pos = 4 -> ComboText(BS_values, bs_combobox)
      [] OTHER -> entries[pos]

\* the body of the loop over variables
ParseVar(pos) ==
    IF pos \in Categorical
    THEN ParseInt(StripParen(AfterLastParen(VarGet(pos))))
    ELSE ParseFloat(VarGet(pos))

\* f"{prediction:.2f} MPa" for a prediction in tenths
RECURSIVE Digits(_)
Digits(n) == IF n < 10 THEN <<DigitChars[n + 1]>> ELSE Append(Digits(n \div 10), DigitChars[(n % 10) + 1])
Format2f(v) ==
    (IF v < 0 THEN <<"-">> ELSE <<>>)
    \o Digits((IF v < 0 THEN -v ELSE v) \div 10)
    \o <<".", DigitChars[((IF v < 0 THEN -v ELSE v) % 10) + 1], "0", " MPa">>

\* scaler.transform([input_values]) and model.predict(input_scaled)[0]
SinglePipeline(input_values) == ModelPredict(ScalerTransform(<<input_values>>))[1]

\* the try block of predict(), given what the scaler and the model do:
\* the exception raised, if any, and the calls made
PredictTry(so, mo) ==
    LET parsed == [pos \in 1..NumFeatures |-> ParseVar(pos)]
        input_values == [pos \in 1..NumFeatures |-> parsed[pos].cell] IN
    IF \E pos \in 1..NumFeatures : ~ parsed[pos].ok
    THEN [exc |-> [type |-> "ValueError", msg |-> <<"float", "ValueError">>],
          calls |-> <<>>, input_values |-> <<>>, prediction |-> NaN]
    ELSE IF so # "ok"
    THEN [exc |-> RaisedBy("scaler.transform", so),
          calls |-> <<"scaler.transform">>, input_values |-> input_values,
          prediction |-> NaN]
    ELSE IF mo # "ok"
    THEN [exc |-> RaisedBy("model.predict", mo),
          calls |-> <<"scaler.transform", "model.predict">>,
          input_values |-> input_values, prediction |-> NaN]
    ELSE [exc |-> NoExc,
          calls |-> <<"scaler.transform", "model.predict">>,
          input_values |-> input_values,
          prediction |-> SinglePipeline(input_values)]

\* the except clause that handles an exception of the try block
Handler(exc) ==
    IF exc.type = "ValueError" THEN "error_input" ELSE "error_occurred"

\* the text predict() leaves in result_label
ResultText(lang, try) ==
    IF try.exc = NoExc
    THEN Tr(lang, "result_prefix")
           \o (IF try.prediction.k = "num" THEN Format2f(try.prediction.v) ELSE <<"nan MPa">>)
    ELSE IF Handler(try.exc) = "error_input" THEN Tr(lang, "error_input")
    ELSE ErrorText(lang, try.exc.msg)

\* predict() calling scaler.fit_transform: the scaler is fitted again, on
\* the values of the form
predictFitTransform ==
    /\ app = "running"
    /\ \E so \in CallOutcomes, mo \in CallOutcomes :
        LET try == PredictTry(so, mo) IN
        /\ result_label' = ResultText(current_language, try)
        /\ request' = [calls |-> try.calls, input_values |-> try.input_values,
                       exc |-> try.exc]
        /\ scaler' = IF try.calls = <<>> THEN scaler ELSE "refitted"
    /\ UNCHANGED <<app, model, current_language, fm_combobox, ft_combobox,
                   bs_combobox, entries, batchVars, tcl_threaded, ui_writers>>

predict ==
    /\ app = "running"
    /\ \E so \in CallOutcomes, mo \in CallOutcomes :
        LET try == PredictTry(so, mo) IN
        /\ result_label' = ResultText(current_language, try)
        /\ request' = [calls |-> try.calls, input_values |-> try.input_values,
                       exc |-> try.exc]
    /\ UNCHANGED <<artifactVars, current_language, fm_combobox, ft_combobox,
                   bs_combobox, entries, batchVars, tcl_threaded, ui_writers>>

\* the user picks a value of a combobox
SelectCombo(pos, index) ==
    /\ app = "running"
    /\ pos \in Categorical
    /\ fm_combobox' = IF pos = 2 THEN index ELSE fm_combobox
    /\ ft_combobox' = IF pos = 3 THEN index ELSE ft_combobox
    /\ bs_combobox' = IF pos = 4 THEN index ELSE bs_combobox
    /\ UNCHANGED <<artifactVars, current_language, entries, result_label, request,
                   batchVars, tcl_threaded, ui_writers>>

\* the user types text into the entry at pos
TypeEntry(pos, text) ==
    /\ app = "running"
    /\ pos \in Continuous
    /\ entries' = [entries EXCEPT ![pos] = text]
    /\ UNCHANGED <<artifactVars, current_language, fm_combobox, ft_combobox,
                   bs_combobox, result_label, request, batchVars, tcl_threaded,
                   ui_writers>>

----------------------------------------------------------------------------
(* Start-up: the artifacts load, or the process exits *)

NoRequest == [calls |-> <<>>, input_values |-> <<>>, exc |-> NoExc]

InitForm ==
    /\ fm_combobox = 1
    /\ ft_combobox = 1
    /\ bs_combobox = 1
    /\ entries = [i \in {1, 5, 6, 7, 8} |-> <<>>]
    /\ result_label = <<>>
    /\ request = NoRequest

InitBatch ==
    /\ selected_file = NoPath
    /\ batch_button = "normal"
    /\ browse_button = "normal"
    /\ batch_status = <<>>
    /\ progress_bar = "stopped"
    /\ threads = <<>>
    /\ disk = [p \in SavePaths |-> NoSheet]

Init ==
    /\ \/ app = "running" /\ model = "model.pkl" /\ scaler = "scaler.pkl"
       \/ app = "exited" /\ model = "none" /\ scaler = "none"
       \/ app = "exited" /\ model = "model.pkl" /\ scaler = "none"
    /\ current_language = "zh"
    /\ InitForm
    /\ InitBatch
    /\ tcl_threaded \in BOOLEAN
    /\ ui_writers = [w \in Widgets |-> {MainThread}]

\* the files of the interleaving model: one accepted, one rejected
RaceFiles == {p \in InputPaths : p.rows = 1 /\ p.defect = "none" /\ p.cols <= NumFeatures}

Next ==
    \/ \E lang \in Languages : set_language(lang)
    \/ \E p \in RaceFiles \cup {NoPath} : browse_file(p)
    \/ batch_predict
    \/ \E i \in 1..MaxThreads : run_prediction(i)

Spec == Init /\ [][Next]_vars

\* every input file, one per session, and one run at a time: the file is
\* picked once and the click on batch_button comes when no thread is alive
NextBatch ==
    \/ \E lang \in Languages : set_language(lang)
    \/ \E p \in InputPaths \cup {NoPath} : selected_file = NoPath /\ browse_file(p)
    \/ AliveThreads = {} /\ batch_predict
    \/ \E i \in 1..MaxThreads : run_prediction(i)

SpecBatch == Init /\ [][NextBatch]_vars

\* the texts typed into the entries, by position
EntryTexts(pos) ==
    CASE pos = 1 -> {<<>>, <<"2", "5">>, <<"-", "5">>}
      [] pos = 5 -> {<<>>, <<"1", "2">>, <<"a", "b", "c">>}
      [] pos = 6 -> {<<>>, <<" ", "8", "0", " ">>, <<"1", "0", "0", "m", "m">>}
      [] pos = 7 -> {<<>>, <<"3", "0">>, <<"n", "a", "n">>}
      [] OTHER -> {<<>>, <<"1", ".", "5">>, <<"1", ",", "5">>}

ComboLen(pos) == CASE pos = 2 -> Len(FM_values) [] pos = 3 -> Len(FT_values)
                   [] OTHER -> Len(BS_values)

\* single prediction: the form is filled in, then predict and set_language
\* are used in any order
NextSingle ==
    \/ \E pos \in Continuous : \E text \in EntryTexts(pos) :
           request = NoRequest /\ TypeEntry(pos, text)
    \/ \E pos \in Categorical : \E index \in {1, ComboLen(pos)} :
           request = NoRequest /\ SelectCombo(pos, index)
    \/ \E lang \in Languages : set_language(lang)
    \/ predict

SpecSingle == Init /\ [][NextSingle]_vars

\* a text that parses, for the entry at pos
ValidText(pos) ==
    CASE pos = 1 -> <<"2", "5">>
      [] pos = 5 -> <<"1", "2">>
      [] pos = 6 -> <<" ", "8", "0", " ">>
      [] pos = 7 -> <<"3", "0">>
      [] OTHER -> <<"1", ".", "5">>

FormFilled == \A pos \in Continuous : entries[pos] # <<>>

\* the whole application in one session: the form is filled in from top to
\* bottom and a first prediction made, then a file of 8 columns is picked
\* and batch runs are made one at a time; predict is used between the runs
\* and set_language at any moment
NextAll ==
    \/ \E pos \in Continuous :
           /\ request = NoRequest
           /\ entries[pos] = <<>>
           /\ \A q \in Continuous : q < pos => entries[q] # <<>>
           /\ TypeEntry(pos, ValidText(pos))
    \/ FormFilled /\ AliveThreads = {} /\ predict
    \/ \E lang \in Languages : set_language(lang)
    \/ \E p \in RaceFiles :
           /\ p.cols = NumFeatures
           /\ request # NoRequest /\ selected_file = NoPath
           /\ browse_file(p)
    \/ AliveThreads = {} /\ batch_predict
    \/ \E i \in 1..MaxThreads : run_prediction(i)

SpecAll == Init /\ [][NextAll]_vars

----------------------------------------------------------------------------
(* Properties *)

Threads == {threads[i] : i \in 1..Len(threads)}

\* a run that was started and has not reached a terminal state
InProgress(t) == t.phase \notin Terminal

Last(s) == s[Len(s)]

\* C1: while a run is in progress, batch_button and browse_button are both
\* disabled and no other run is in progress.
C1_OneRunControlsDisabled ==
    /\ \A t \in Threads :
          InProgress(t) => batch_button = "disabled" /\ browse_button = "disabled"
    /\ Cardinality({i \in 1..Len(threads) : InProgress(threads[i])}) <= 1

\* C2: a thread ends only in a terminal state, with both controls enabled
\* and the progress bar stopped at that moment, and no control is enabled
\* while a run is in progress.
C2_ControlsRestoredAtEnd ==
    [][ /\ \A i \in 1..Len(threads) :
             (threads[i].pc # "done" /\ i <= Len(threads') /\ threads'[i].pc = "done")
                => /\ threads'[i].phase \in Terminal
                   /\ batch_button' = "normal"
                   /\ browse_button' = "normal"
                   /\ progress_bar' = "stopped"
        /\ (batch_button' = "normal" /\ batch_button = "disabled")
                => \A i \in 1..Len(threads') : ~ InProgress(threads'[i])
        /\ (browse_button' = "normal" /\ browse_button = "disabled")
                => \A i \in 1..Len(threads') : ~ InProgress(threads'[i])
      ]_vars

\* the statements of run_prediction before the table has been checked
BeforeValidated == {"status_reading", "read", "validate"}
\* the statements after the run's last status text
AfterOutcome == {"finally_progress", "finally_batch", "finally_browse", "done"}

NextPhase(phase) ==
    CASE phase = "Idle" -> {"Reading"}
      [] phase = "Reading" -> {"Validating"}
      [] phase = "Validating" -> {"Scaling"}
      [] phase = "Scaling" -> {"Predicting"}
      [] phase = "Predicting" -> {"SaveChoicePending"}
      [] phase = "SaveChoicePending" -> {"Saved", "SaveCancelled"}
      [] OTHER -> {}

ForwardOnly(trace) ==
    /\ trace[1] = "Idle"
    /\ \A j \in 1..(Len(trace) - 1) :
          \/ trace[j + 1] \in NextPhase(trace[j])
          \/ trace[j + 1] = "Failed" /\ trace[j] \notin Terminal

\* the status phases in the order the observer is to see them
PhaseTexts(lang) ==
    <<Tr(lang, "batch_status_reading"), Tr(lang, "batch_status_scaling"),
      Tr(lang, "batch_status_predicting"), Tr(lang, "batch_status_saving")>>
ReportingPhases == {"Reading", "Scaling", "Predicting", "SaveChoicePending"}
PhaseTextSet == {PhaseTexts(lang)[j] : lang \in Languages, j \in 1..4}

\* the phase texts among what a run has reported
PhaseReports(t) == SelectSeq(t.reported, LAMBDA x : x \in PhaseTextSet)
Entered(t) == Cardinality({j \in 1..Len(t.trace) : t.trace[j] \in ReportingPhases})

\* C3: a run's phases follow Idle, Reading, Validating, Scaling, Predicting,
\* SaveChoicePending, then Saved or SaveCancelled, with Failed from any phase
\* that is not terminal and nothing after a terminal phase; the phase texts
\* it reports are reading, scaling, predicting, saving in this order, one
\* per phase entered, and the only text after them is the outcome's.
C3_PhasesForwardOnly ==
    \A t \in Threads :
        /\ ForwardOnly(t.trace)
        /\ t.phase = Last(t.trace)
        /\ PhaseReports(t) = SubSeq(PhaseTexts(t.lang), 1, Entered(t))
        /\ Len(t.reported) <= Len(PhaseReports(t)) + 1
        /\ Len(t.reported) = Len(PhaseReports(t)) + 1
              => t.phase \in Terminal /\ Last(t.reported) \notin PhaseTextSet

C3_Witness ==
    \E t \in Threads :
        /\ t.pc = "done"
        /\ t.trace = <<"Idle", "Reading", "Validating", "Scaling", "Predicting", "Failed">>
        /\ Len(t.reported) = 4

\* C4: a table of fewer than 8 columns fails with the too-few-columns
\* message once it has been checked; neither the scaler nor the model is
\* called, no column is added, no save dialog is shown and nothing is written.
C4_TooFewColumnsRejected ==
    \A t \in Threads :
        t.file_path.cols < NumFeatures =>
            /\ t.calls = <<>>
            /\ "asksaveasfilename" \notin {t.dialogs[j] : j \in 1..Len(t.dialogs)}
            /\ ~ t.wrote
            /\ \A p \in SavePaths : disk[p] = NoSheet
            /\ Len(t.df.columns) <= t.file_path.cols
            /\ t.pc \notin BeforeValidated =>
                  /\ t.phase = "Failed"
                  /\ "Validating" \in {t.trace[j] : j \in 1..Len(t.trace)}
                        => \E cur \in Languages :
                              t.exc = [type |-> "ValueError", msg |-> TooFewColumnsMsg(cur)]
            /\ t.pc \in AfterOutcome => Last(t.reported) = ErrorText(t.lang, t.exc.msg)

C4_Witness ==
    \E t \in Threads :
        /\ t.file_path.cols = NumFeatures - 1
        /\ t.pc = "done"
        /\ t.exc.msg = TooFewColumnsMsg("en")
        /\ t.lang = "zh"

\* C5: a table of at least 8 columns with a text or an empty cell in one of
\* its first 8 columns fails with the not-numeric message once it has been
\* checked, and neither the scaler nor the model is called.
C5_NonNumericRejected ==
    \A t \in Threads :
        (/\ t.file_path.cols >= NumFeatures
         /\ \E r \in 1..t.file_path.rows, c \in 1..NumFeatures :
                SheetCell(t.file_path, r, c).k # "num")
        => /\ t.calls = <<>>
           /\ (t.pc \notin BeforeValidated /\ "Validating" \in {t.trace[j] : j \in 1..Len(t.trace)})
                 => \E cur \in Languages :
                       t.exc = [type |-> "ValueError", msg |-> NotNumericMsg(cur)]

\* the texts of the entries that are no numbers
Malformed == {<<>>, <<"a", "b", "c">>, <<"1", "0", "0", "m", "m">>, <<"1", ",", "5">>}

\* C6: after predict() on a form with an empty or malformed entry, the
\* result is the input error text and neither the scaler nor the model
\* was called.
C6_BadInputNoModelCall ==
    (request # NoRequest /\ \E pos \in Continuous : entries[pos] \in Malformed)
        => /\ request.calls = <<>>
           /\ \E lang \in Languages : result_label = Tr(lang, "error_input")

C6_Witness ==
    /\ request # NoRequest
    /\ entries[5] = <<"a", "b", "c">>
    /\ \A pos \in Continuous \ {5} : entries[pos] \notin Malformed
    /\ result_label = Tr("en", "error_input")

\* C7: when the scaler or the model raised in predict(), the result is the
\* generic error text with the exception's message, never the input error
\* text.
C7_FailureIsGenericError ==
    (request.calls # <<>> /\ request.exc # NoExc)
        => \E lang \in Languages : result_label = ErrorText(lang, request.exc.msg)

IsErrorText(text) == Len(text) >= 2 /\ text[2] = "error_occurred"
SavedTexts == {SavedText(lang, cur) : lang \in Languages, cur \in Languages}
DialogsOf(t) == {t.dialogs[j] : j \in 1..Len(t.dialogs)}

\* C8: when the save dialog is answered with no path, the run ends in
\* SaveCancelled, writes nothing, shows neither an error nor a success
\* dialog, and its last status text is the cancellation text, which is
\* neither an error text nor a text of a saved run.
C8_CancelWritesNothing ==
    \A t \in Threads :
        ("asksaveasfilename" \in DialogsOf(t) /\ t.save_path = NoPath)
        => /\ t.calls = <<"scaler.transform", "model.predict">>
           /\ t.phase = "SaveCancelled"
           /\ ~ t.wrote
           /\ disk = t.disk_at_start
           /\ DialogsOf(t) = {"asksaveasfilename"}
           /\ t.pc \in AfterOutcome =>
                 /\ \E cur \in Languages : Last(t.reported) = SaveCancelledText(cur)
                 /\ ~ IsErrorText(Last(t.reported))
                 /\ Last(t.reported) \notin SavedTexts

C8_Witness ==
    \E t \in Threads :
        /\ t.pc = "done"
        /\ t.phase = "SaveCancelled"
        /\ batch_status = SaveCancelledText("zh")

\* the FeatureVector of a row: its first 8 cells
FeatureVector(row) == SubSeq(row, 1, NumFeatures)

\* C9: once the prediction column has been added, its value at every row is
\* what the single-prediction pipeline gives for the first 8 cells of the
\* same row of the input file.
C9_BatchEqualsSingle ==
    \A t \in Threads :
        LET input == ReadExcel(t.file_path) IN
        Len(t.df.columns) > Len(input.columns)
        => /\ Len(t.df.rows) = Len(input.rows)
           /\ \A r \in 1..Len(input.rows) :
                 Last(t.df.rows[r]) = SinglePipeline(FeatureVector(input.rows[r]))

C9_Witness ==
    \E t \in Threads :
        /\ Len(t.df.columns) = NumFeatures + 2
        /\ Len(t.df.rows) = 2
        /\ Last(t.df.rows[1]) # Last(t.df.rows[2])

C11_UiWrittenByMainThreadOnly ==
    \A w \in Widgets : ui_writers[w] = {MainThread}

\* a categorical value that is one of the codes of its enumeration
InEnumeration(cell, values) ==
    cell.k = "num" /\ \E j \in 1..Len(values) : cell.v = 10 * values[j]

\* all 8 positions there, FM, FT and BS (positions 2, 3, 4) within their codes
WellFormed(x) ==
    /\ Len(x) = NumFeatures
    /\ InEnumeration(x[2], FM_values)
    /\ InEnumeration(x[3], FT_values)
    /\ InEnumeration(x[4], BS_values)

\* C12: the vector predict() has passed to the scaler, and every row of the
\* matrix a batch run has passed to the scaler, has 8 positions with FM in
\* 1..5, FT in 1..3 and BS in 1..5; a batch row is the first 8 cells of the
\* file's row, in the file's order.
C12_FeatureVectorWellFormed ==
    /\ request.calls # <<>> => WellFormed(request.input_values)
    /\ \A t \in Threads :
          t.calls # <<>> =>
              \A r \in 1..Len(t.df.rows) :
                  /\ WellFormed(InputData(t.df)[r])
                  /\ InputData(t.df)[r] = FeatureVector(ReadExcel(t.file_path).rows[r])

\* C13: model and scaler never change after start-up; a running process
\* holds both; in a process that exited at start-up no prediction was ever
\* requested, no batch run started and nothing shown or written.
C13_ArtifactsLoadedOnce ==
    /\ [][model' = model /\ scaler' = scaler /\ app' = app]_vars
    /\ [](app = "running" => model = "model.pkl" /\ scaler = "scaler.pkl")
    /\ []((model = "none" \/ scaler = "none")
            => /\ app = "exited"
               /\ request = NoRequest
               /\ result_label = <<>>
               /\ threads = <<>>
               /\ selected_file = NoPath
               /\ \A p \in SavePaths : disk[p] = NoSheet)

C13_Witness ==
    /\ app = "running"
    /\ model = "model.pkl" /\ scaler = "scaler.pkl"
    /\ current_language = "en"
    /\ request.calls = <<"scaler.transform", "model.predict">>
    /\ \E t \in Threads :
          t.pc = "done" /\ t.calls = <<"scaler.transform", "model.predict">>

\* the texts that tell of a run in progress
InProgressTexts ==
    {Tr(lang, key) : lang \in Languages,
                     key \in {"batch_status_start", "batch_status_reading",
                              "batch_status_scaling", "batch_status_predicting",
                              "batch_status_saving"}}

\* C14: the status text a run sets when it has reached a terminal state is
\* the text of its outcome (saved, save cancelled, or the error text with
\* the exception's message) and is not one of the texts of a run in
\* progress (starting, reading, scaling, predicting, saving).
C14_TerminalStatusText ==
    \A t \in Threads :
        t.pc \in AfterOutcome =>
            /\ t.phase \in Terminal
            /\ t.phase = "Saved" => Last(t.reported) \in SavedTexts
            /\ t.phase = "SaveCancelled" =>
                  \E cur \in Languages : Last(t.reported) = SaveCancelledText(cur)
            /\ t.phase = "Failed" => Last(t.reported) = ErrorText(t.lang, t.exc.msg)
            /\ Last(t.reported) \notin InProgressTexts

\* the 8 values the form holds: what predict() would read from each field
FormValues == [pos \in 1..NumFeatures |-> ParseVar(pos)]

\* C15: a step of set_language leaves the 8 values of the form, the
\* selected batch file and the state of batch_button and browse_button as
\* they were.
C15_LanguageSwitchKeepsInputs ==
    [][ (\E lang \in Languages : set_language(lang))
            => /\ FormValues' = FormValues
               /\ selected_file' = selected_file
               /\ batch_button' = batch_button
               /\ browse_button' = browse_button
      ]_vars

====
